---- MODULE Spec2Model ----
(***************************************************************************)
(* devaci_module: the template-driven configuration compiler and           *)
(* deployment orchestrator.                                                *)
(*                                                                         *)
(*   JinjaClass.render    src/devaci_module/jinja.py                       *)
(*   CobraClass.render    src/devaci_module/cobra.py  (dispatch engine)    *)
(*   DeployClass.deploy   src/devaci_module/deploy.py (orchestrator)       *)
(*                                                                         *)
(* One run of DeployClass.deploy() is modelled as a state machine.  The    *)
(* template texts are inputs: what each template expands to is drawn when  *)
(* the template is rendered, and the rendered document is revealed one     *)
(* top-level key at a time, in the order dict.items() yields them.         *)
(*                                                                         *)
(* The Cobra SDK (cobra.model.*, ConfigRequest, MoDirectory) is an         *)
(* external collaborator.  A managed-object constructor is taken to        *)
(* succeed when it is given its naming argument; ConfigRequest.addMo is    *)
(* taken to append to configMos.  A call of a collaborator may raise where *)
(* the code guards it with a try block: expanding and parsing a template,  *)
(* a handler, and start_timer, login and commit.                           *)
(*                                                                         *)
(* The pure functions of the package (not_nan_str,                         *)
(* replace_str_nan_with_empty, and the constructors and resolvers given to *)
(* MySafeLoader) are operators; SpecFunctions applies each of them to      *)
(* inputs drawn from bounded sets, and likewise the handlers fvBD, fvAEPg  *)
(* and fvRsPathAtt, each on a plan of its own.                             *)
(***************************************************************************)
EXTENDS Integers, Sequences, FiniteSets, TLC

(* ------------------------------------------------------------ bounds --- *)

\* Largest number of templates configured for one run.
MaxTemplates == 2

\* Largest number of top-level keys in the rendered documents of one run,
\* all documents together.
MaxKeys == 2

\* The countdown before the commit, in seconds (the "timer" option).
TimerSecs == 1

\* Deepest nesting of mappings and lists in a document given to
\* replace_str_nan_with_empty.
MaxDepth == 2

(* ----------------------------------------------------------- strings --- *)
\* A Python str is the sequence of its characters.

S_Empty == << >>
S_A == <<"A">>
S_T == <<"T">>
S_oops == <<"o", "o", "p", "s">>
S_nan == <<"n", "a", "n">>
S_NaN == <<"N", "a", "N">>
S_PaddedNan == <<" ", "n", "a", "N", " ">>
S_nanx == <<"n", "a", "n", "x">>
S_Blank == <<" ", "\t">>

Whitespace == {" ", "\t", "\n"}

\* str.lower() on one character.
LowerChar(c) ==
    CASE c = "N" -> "n"
      [] c = "A" -> "a"
      [] c = "T" -> "t"
      [] c = "F" -> "f"
      [] c = "L" -> "l"
      [] c = "S" -> "s"
      [] c = "E" -> "e"
      [] c = "O" -> "o"
      [] OTHER -> c

\* str.lower()
Lower(s) == [i \in 1..Len(s) |-> LowerChar(s[i])]

RECURSIVE LStrip(_)
LStrip(s) ==
    IF s # << >> /\ Head(s) \in Whitespace THEN LStrip(Tail(s)) ELSE s

RECURSIVE RStrip(_)
RStrip(s) ==
    IF s # << >> /\ s[Len(s)] \in Whitespace
    THEN RStrip(SubSeq(s, 1, Len(s) - 1))
    ELSE s

\* str.strip()
Strip(s) == RStrip(LStrip(s))

(* ------------------------------------------------------------ values --- *)
\* A scalar leaf of a rendered document: None, a str, or a float.
NoneLeaf == [t |-> "none", s |-> S_Empty, nan |-> FALSE]
StrLeaf(s) == [t |-> "str", s |-> s, nan |-> FALSE]
FloatLeaf(isNan) == [t |-> "float", s |-> S_Empty, nan |-> isNan]

\* A node of a nested document: a scalar leaf, a list of nodes, or a mapping
\* given by its keys and, in the same order, their values.
LeafNode(leaf) == [t |-> "leaf", leaf |-> leaf, keys |-> << >>, kids |-> << >>]
ListNode(kids) == [t |-> "list", leaf |-> NoneLeaf, keys |-> << >>, kids |-> kids]
DictNode(keys, kids) == [t |-> "dict", leaf |-> NoneLeaf, keys |-> keys, kids |-> kids]

\* The leaf rewrite with the str stripped in place when it is not replaced.
ReplaceLeafStripping(leaf) ==
    IF leaf.t = "str" /\ Lower(leaf.s) = S_nan THEN StrLeaf(S_Empty)
    ELSE IF leaf.t = "str" THEN StrLeaf(Strip(leaf.s))
    ELSE leaf

\* replace_str_nan_with_empty on a scalar:
\*     if isinstance(obj, str) and obj.strip().lower() == "nan": return ""
\*     return obj
ReplaceLeaf(leaf) ==
    IF leaf.t = "str" /\ Lower(Strip(leaf.s)) = S_nan THEN StrLeaf(S_Empty)
    ELSE leaf

\* replace_str_nan_with_empty
RECURSIVE replace_str_nan_with_empty(_)
replace_str_nan_with_empty(obj) ==
    IF obj.t = "dict"
    THEN DictNode(obj.keys,
                  [i \in 1..Len(obj.kids) |->
                      replace_str_nan_with_empty(obj.kids[i])])
    ELSE IF obj.t = "list"
    THEN ListNode([i \in 1..Len(obj.kids) |->
                      replace_str_nan_with_empty(obj.kids[i])])
    ELSE LeafNode(ReplaceLeaf(obj.leaf))

\* What iterating a top-level value yields: a mapping (an item of a list) or
\* a str (a character of a str value, a key of a dict value).
MapElem(m) == [t |-> "map", m |-> m]
StrElem(c) == [t |-> "str", m |-> [ch |-> c]]

\* A top-level value of a rendered document.
NoneValue == [t |-> "none", s |-> S_Empty, elems |-> << >>]
StrValue(s) == [t |-> "str", s |-> s, elems |-> << >>]
ListValue(elems) == [t |-> "list", s |-> S_Empty, elems |-> elems]
\* A dict value is given by its keys, which is what iterating it yields.
DictValue(keys) == [t |-> "dict", s |-> S_Empty, elems |-> keys]

\* for x in value
Iter(value) ==
    CASE value.t = "list" -> value.elems
      [] value.t = "dict" -> value.elems
      [] value.t = "str" -> [i \in 1..Len(value.s) |-> StrElem(value.s[i])]
      [] OTHER -> << >>

(* ------------------------------------------------------ MySafeLoader --- *)
\* load(output, MySafeLoader) on a plain scalar: the resolver gives the scalar
\* a tag by its shape, and the constructor registered for the tag builds the
\* value.  The shapes and the constructors of SafeConstructor are PyYAML's
\* (YAML 1.1); the module changes the two tables.

\* A native int or bool, by its repr().
IntLeaf(repr) == [t |-> "int", s |-> repr, nan |-> FALSE]
BoolLeaf(b) ==
    [t |-> "bool",
     s |-> IF b THEN <<"T", "r", "u", "e">> ELSE <<"F", "a", "l", "s", "e">>,
     nan |-> FALSE]

DigitChars == <<"0", "1", "2", "3", "4", "5", "6", "7", "8", "9">>
IsDigit(c) == \E i \in 1..10 : DigitChars[i] = c
IsOctDigit(c) == \E i \in 1..8 : DigitChars[i] = c
DigitVal(c) == (CHOOSE i \in 1..10 : DigitChars[i] = c) - 1

\* A scalar without its sign.
Unsigned(s) == IF s # << >> /\ Head(s) \in {"+", "-"} THEN Tail(s) ELSE s

S_DotNan == <<".", "n", "a", "n">>
S_Tilde == <<"~">>
S_null == <<"n", "u", "l", "l">>
S_yes == <<"y", "e", "s">>
S_No == <<"N", "o">>
S_True == <<"T", "r", "u", "e">>
S_FALSE == <<"F", "A", "L", "S", "E">>
S_on == <<"o", "n">>

\* The implicit resolver of tag:yaml.org,2002:bool, on the texts modelled.
IsBoolShape(s) == s \in {S_yes, S_No, S_True, S_FALSE, S_on}

\* The implicit resolver of tag:yaml.org,2002:int: decimal and octal.
IsIntShape(s) ==
    LET b == Unsigned(s) IN
    /\ b # << >>
    /\ \A i \in 1..Len(b) : IsDigit(b[i])
    /\ (Len(b) > 1 /\ b[1] = "0") => \A i \in 1..Len(b) : IsOctDigit(b[i])

\* The implicit resolver of tag:yaml.org,2002:float: digits, a point and
\* digits, or ".nan".
IsFloatShape(s) ==
    \/ s = S_DotNan
    \/ LET b == Unsigned(s) IN
       \E k \in 2..Len(b) :
           /\ b[k] = "."
           /\ \A i \in 1..Len(b) : i # k => IsDigit(b[i])

\* The implicit resolver of tag:yaml.org,2002:null.
IsNullShape(s) == s \in {S_Empty, S_Tilde, S_null}

HasShape(tag, s) ==
    CASE tag = "bool" -> IsBoolShape(s)
      [] tag = "float" -> IsFloatShape(s)
      [] tag = "int" -> IsIntShape(s)
      [] tag = "null" -> IsNullShape(s)
      [] OTHER -> FALSE

\* Resolver.yaml_implicit_resolvers as PyYAML sets it up, by tag.
DefaultImplicitResolvers == <<"bool", "float", "int", "null">>

\* MySafeLoaderResolvers without the loop that filters the table.
ResolversWithBool == DefaultImplicitResolvers

\* MySafeLoader.yaml_implicit_resolvers after the loop that drops every
\* resolver of tag:yaml.org,2002:bool.
MySafeLoaderResolvers ==
    LET NotBool(tag) == tag # "bool" IN SelectSeq(DefaultImplicitResolvers, NotBool)

\* Resolver.resolve on a plain scalar: the first resolver that matches, or
\* tag:yaml.org,2002:str.
RECURSIVE Resolve(_, _)
Resolve(resolvers, s) ==
    IF resolvers = << >> THEN "str"
    ELSE IF HasShape(Head(resolvers), s) THEN Head(resolvers)
    ELSE Resolve(Tail(resolvers), s)

\* int(value, 8) or int(value): the number a run of digits denotes.
RECURSIVE DigitsValue(_, _, _)
DigitsValue(b, base, acc) ==
    IF b = << >> THEN acc
    ELSE DigitsValue(Tail(b), base, acc * base + DigitVal(Head(b)))

\* repr() of a natural number.
RECURSIVE NatRepr(_)
NatRepr(n) ==
    IF n < 10 THEN <<DigitChars[n + 1]>>
    ELSE Append(NatRepr(n \div 10), DigitChars[(n % 10) + 1])

\* SafeConstructor.construct_yaml_int, by the repr() of its result.
construct_yaml_int(s) ==
    LET b == Unsigned(s)
        n == IF Len(b) > 1 /\ b[1] = "0" THEN DigitsValue(b, 8, 0)
             ELSE DigitsValue(b, 10, 0)
    IN  IF Head(s) = "-" /\ n # 0 THEN IntLeaf(<<"-">> \o NatRepr(n))
        ELSE IntLeaf(NatRepr(n))

\* SafeConstructor.construct_yaml_bool: bool_values[value.lower()]
construct_yaml_bool(s) == BoolLeaf(Lower(s) \in {S_yes, Lower(S_True), S_on})

\* The constructors SafeConstructor registers, by tag.
SafeConstruct(tag, s) ==
    CASE tag = "bool" -> construct_yaml_bool(s)
      [] tag = "int" -> construct_yaml_int(s)
      [] tag = "float" -> FloatLeaf(s = S_DotNan)
      [] tag = "null" -> NoneLeaf
      [] OTHER -> StrLeaf(s)

\* no_convert_int_constructor, no_convert_float_constructor: node.value
no_convert_int_constructor(s) == StrLeaf(s)
no_convert_float_constructor(s) == StrLeaf(s)

\* MySafeLoader.yaml_constructors after the two add_constructor calls.
MySafeLoaderConstruct(tag, s) ==
    CASE tag = "int" -> no_convert_int_constructor(s)
      [] tag = "float" -> no_convert_float_constructor(s)
      [] OTHER -> SafeConstruct(tag, s)

\* load(output, MySafeLoader) on a text that is one plain scalar.
LoadScalar(s) == MySafeLoaderConstruct(Resolve(MySafeLoaderResolvers, s), s)

\* "replace_str_nan_with_empty(load(output, MySafeLoader))" on such a text.
RenderScalar(s) == ReplaceLeaf(LoadScalar(s))

(* ------------------------------------------------ validity predicate --- *)

\* is_invalid without the test for an empty str.
is_invalidWithoutBlank(v) ==
    CASE v.t = "none" -> TRUE
      [] v.t = "str" -> Lower(Strip(v.s)) = S_nan
      [] v.t = "float" -> v.nan
      [] OTHER -> FALSE

\* not_nan_str.is_invalid
is_invalid(v) ==
    CASE v.t = "none" -> TRUE
      [] v.t = "str" -> Strip(v.s) = S_Empty \/ Lower(Strip(v.s)) = S_nan
      [] v.t = "float" -> v.nan
      [] OTHER -> FALSE

\* not_nan_str(value, keys) on a mapping: keys that are missing are ignored.
not_nan_str(m, keys) ==
    ~ \E k \in keys : k \in DOMAIN m /\ is_invalid(m[k])

(* ---------------------------------------------------------- handlers --- *)
\* One construction operation: ConfigRequest.addMo(mo), where mo is of class
\* kind, is named name and hangs under the object named parent.
Op(kind, parent, name) == [kind |-> kind, parent |-> parent, name |-> name]

S_uni == <<"u", "n", "i">>

NoOps == [ops |-> << >>, raised |-> FALSE]
Raise == [ops |-> << >>, raised |-> TRUE]

\* The body of the loop of CobraClass.fvTenant for one element x:
\*     Tenant = cobra.model.fv.Tenant(Uni, **x); self.config.addMo(Tenant)
\* "**x" raises TypeError unless x is a mapping, and the constructor raises
\* TypeError when its naming argument is missing.
fvTenantItem(x) ==
    IF x.t = "map" /\ "name" \in DOMAIN x.m
    THEN [ops |-> <<Op("fvTenant", S_uni, x.m.name.s)>>, raised |-> FALSE]
    ELSE Raise

\* fvApItem with the Ap built under Uni, not under its Tenant.
fvApItemUnderUni(x) ==
    IF x.t # "map" THEN Raise
    ELSE IF ~ not_nan_str(x.m, {"name", "tenant"}) THEN NoOps
    ELSE IF "tenant" \notin DOMAIN x.m THEN Raise
    ELSE IF "name" \notin DOMAIN x.m THEN Raise
    ELSE [ops |-> <<Op("fvAp", S_uni, x.m.name.s)>>, raised |-> FALSE]

\* The body of the loop of CobraClass.fvAp for one element x:
\*     if not_nan_str(x, ["name", "tenant"]):
\*         Tenant = cobra.model.fv.Tenant(Uni, name=x["tenant"])
\*         Ap = cobra.model.fv.Ap(Tenant, **x); self.config.addMo(Ap)
\* On a str x, x["tenant"] raises TypeError, inside not_nan_str or after it.
fvApItem(x) ==
    IF x.t # "map" THEN Raise
    ELSE IF ~ not_nan_str(x.m, {"name", "tenant"}) THEN NoOps
    ELSE IF "tenant" \notin DOMAIN x.m THEN Raise
    ELSE IF "name" \notin DOMAIN x.m THEN Raise
    ELSE [ops |-> <<Op("fvAp", x.m.tenant.s, x.m.name.s)>>, raised |-> FALSE]

\* "for x in value: <body>", given what the body does on each element: the
\* operations appended until the loop ends or a body raises; what was
\* appended before the raise stays appended.
RECURSIVE ForEach(_)
ForEach(bodies) ==
    IF bodies = << >> THEN NoOps
    ELSE IF Head(bodies).raised THEN Head(bodies)
    ELSE LET rest == ForEach(Tail(bodies)) IN
         [ops |-> Head(bodies).ops \o rest.ops, raised |-> rest.raised]

\* CobraClass.fvTenant
fvTenant(value) ==
    ForEach([i \in 1..Len(Iter(value)) |-> fvTenantItem(Iter(value)[i])])

\* CobraClass.fvAp
fvAp(value) ==
    ForEach([i \in 1..Len(Iter(value)) |-> fvApItem(Iter(value)[i])])

\* An attribute of an item whose value is a list (of sub-objects).
ListAttr(elems) == [t |-> "list", elems |-> elems]

\* "self.config.addMo(mo)" went through.
Added(op) == [ops |-> <<op>>, raised |-> FALSE]

\* The text that names an object in the plan: the value of attribute label,
\* or nothing when the mapping has no such attribute.
Label(m, label) == IF label \in DOMAIN m THEN m[label].s ELSE S_Empty

\* Child with the validity predicate left out.
ChildUnguarded(sub, required, naming, kind, parent) ==
    IF sub.t # "map" THEN Raise
    ELSE IF naming # "" /\ naming \notin DOMAIN sub.m THEN Raise
    ELSE Added(Op(kind, parent, Label(sub.m, IF naming # "" THEN naming
                                             ELSE CHOOSE k \in required : TRUE)))

\* One optional sub-object sub of an item:
\*     if not_nan_str(sub, required):
\*         Child = cobra.model.<kind>(Parent, **sub); self.config.addMo(Child)
\* not_nan_str raises TypeError on None or a number ("k in value"), and "**sub"
\* raises TypeError unless sub is a mapping.  The constructor raises
\* TypeError when the class has a naming attribute and sub lacks it; a class
\* without one (naming = "") is labelled by its required attribute.
Child(sub, required, naming, kind, parent) ==
    IF sub.t # "map" THEN Raise
    ELSE IF ~ not_nan_str(sub.m, required) THEN NoOps
    ELSE IF naming # "" /\ naming \notin DOMAIN sub.m THEN Raise
    ELSE Added(Op(kind, parent, Label(sub.m, IF naming # "" THEN naming
                                             ELSE CHOOSE k \in required : TRUE)))

\* "if key in x: if not_nan_str(x[key], required): ..."
OptionalChild(m, key, required, naming, parent) ==
    IF key \in DOMAIN m THEN Child(m[key], required, naming, key, parent)
    ELSE NoOps

\* "if key in x: for sub in x[key]: if not_nan_str(sub, required): ..."
\* Iterating None or a number raises TypeError; iterating a str or a mapping
\* yields strs, on which "**sub" raises.
OptionalChildren(m, key, required, naming, parent) ==
    IF key \notin DOMAIN m THEN NoOps
    ELSE IF m[key].t = "list"
    THEN ForEach([i \in 1..Len(m[key].elems) |->
                     Child(m[key].elems[i], required, naming, key, parent)])
    ELSE IF m[key].t = "str" /\ m[key].s = S_Empty THEN NoOps
    ELSE IF m[key].t = "map" /\ DOMAIN m[key].m = {} THEN NoOps
    ELSE Raise

\* fvBDItem with the BD appended after its children.
fvBDItemChildrenFirst(x) ==
    IF x.t # "map" THEN Raise
    ELSE IF ~ {"tenant", "name"} \subseteq DOMAIN x.m THEN Raise
    ELSE LET BD == x.m.name.s IN
         ForEach(<<
           OptionalChild(x.m, "fvRsCtx", {"tnFvCtxName"}, "", BD),
           OptionalChild(x.m, "igmpIfP", {"name"}, "", BD),
           OptionalChild(x.m, "fvRsBdToEpRet", {"tnFvEpRetPolName"}, "", BD),
           OptionalChild(x.m, "fvRsIgmpsn", {"tnIgmpSnoopPolName"}, "", BD),
           OptionalChild(x.m, "fvRsMldsn", {"tnMldSnoopPolName"}, "", BD),
           OptionalChild(x.m, "fvRsBDToOut", {"tnL3extOutName"},
                         "tnL3extOutName", BD),
           OptionalChildren(x.m, "fvSubnet", {"ip"}, "ip", BD),
           Added(Op("fvBD", x.m.tenant.s, BD)) >>)

\* The body of the loop of CobraClass.fvBD for one element x:
\*     Tenant = cobra.model.fv.Tenant(Uni, name=x["tenant"])
\*     BD = cobra.model.fv.BD(Tenant, **x); self.config.addMo(BD)
\* then the optional children of the BD, in the order of the code.  The
\* Tenant is built and not added.
fvBDItem(x) ==
    IF x.t # "map" THEN Raise
    ELSE IF ~ {"tenant", "name"} \subseteq DOMAIN x.m THEN Raise
    ELSE LET BD == x.m.name.s IN
         ForEach(<<
           Added(Op("fvBD", x.m.tenant.s, BD)),
           OptionalChild(x.m, "fvRsCtx", {"tnFvCtxName"}, "", BD),
           OptionalChild(x.m, "igmpIfP", {"name"}, "", BD),
           OptionalChild(x.m, "fvRsBdToEpRet", {"tnFvEpRetPolName"}, "", BD),
           OptionalChild(x.m, "fvRsIgmpsn", {"tnIgmpSnoopPolName"}, "", BD),
           OptionalChild(x.m, "fvRsMldsn", {"tnMldSnoopPolName"}, "", BD),
           OptionalChild(x.m, "fvRsBDToOut", {"tnL3extOutName"},
                         "tnL3extOutName", BD),
           OptionalChildren(x.m, "fvSubnet", {"ip"}, "ip", BD) >>)

\* CobraClass.fvBD
fvBD(value) ==
    ForEach([i \in 1..Len(Iter(value)) |-> fvBDItem(Iter(value)[i])])

\* The body of the loop of CobraClass.fvAEPg for one element x:
\*     Tenant = cobra.model.fv.Tenant(Uni, name=x["tenant"])
\*     Ap = cobra.model.fv.Ap(Tenant, name=x["fvApName"])
\*     AEPg = cobra.model.fv.AEPg(Ap, **x); self.config.addMo(AEPg)
\* then the optional children of the AEPg.  Tenant and Ap are not added.
fvAEPgItem(x) ==
    IF x.t # "map" THEN Raise
    ELSE IF ~ {"tenant", "fvApName", "name"} \subseteq DOMAIN x.m THEN Raise
    ELSE LET AEPg == x.m.name.s IN
         ForEach(<<
           Added(Op("fvAEPg", x.m.fvApName.s, AEPg)),
           OptionalChild(x.m, "fvRsBd", {"tnFvBDName"}, "", AEPg),
           OptionalChildren(x.m, "fvRsDomAtt", {"tDn"}, "tDn", AEPg),
           OptionalChildren(x.m, "fvRsPathAtt", {"tDn", "primaryEncap", "mode"},
                            "tDn", AEPg) >>)

\* CobraClass.fvAEPg
fvAEPg(value) ==
    ForEach([i \in 1..Len(Iter(value)) |-> fvAEPgItem(Iter(value)[i])])

\* The attributes CobraClass.fvRsPathAtt asks not_nan_str about.
StaticPathKeys ==
    {"tenant", "fvApName", "fvAEPgName", "tDn", "primaryEncap", "mode"}

\* The body of the loop of CobraClass.fvRsPathAtt for one element x: under
\* not_nan_str(x, StaticPathKeys), Tenant, Ap, AEPg and RsPathAtt are built
\* and added one after the other.  x["fvApName"] raises KeyError after the
\* Tenant was added, and so on down the chain.
fvRsPathAttItem(x) ==
    IF x.t # "map" THEN Raise
    ELSE IF ~ not_nan_str(x.m, StaticPathKeys) THEN NoOps
    ELSE LET has(K) == K \subseteq DOMAIN x.m IN
         ForEach(<<
           IF has({"tenant"})
           THEN Added(Op("fvTenant", S_uni, x.m.tenant.s)) ELSE Raise,
           IF has({"tenant", "fvApName"})
           THEN Added(Op("fvAp", x.m.tenant.s, x.m.fvApName.s)) ELSE Raise,
           IF has({"tenant", "fvApName", "fvAEPgName"})
           THEN Added(Op("fvAEPg", x.m.fvApName.s, x.m.fvAEPgName.s))
           ELSE Raise,
           IF has({"tenant", "fvApName", "fvAEPgName", "tDn"})
           THEN Added(Op("fvRsPathAtt", x.m.fvAEPgName.s, x.m.tDn.s))
           ELSE Raise >>)

\* CobraClass.fvRsPathAtt
fvRsPathAtt(value) ==
    ForEach([i \in 1..Len(Iter(value)) |-> fvRsPathAttItem(Iter(value)[i])])

\* The configuration handlers the documents of a run of deploy() call; the
\* other handlers above are applied on their own, as functions.
ConfigHandlers == {"fvTenant", "fvAp"}

\* callable(getattr(CobraClass, key, None)): every method of the class is
\* found, the configuration handlers and CobraClass.render itself alike.
IsCallable(key) == key \in ConfigHandlers \cup {"render"}

\* caller(self, value).  CobraClass.render(self, value) raises AttributeError
\* at once: a str, list or dict has no attribute "output".
Call(key, value) ==
    CASE key = "fvTenant" -> fvTenant(value)
      [] key = "fvAp" -> fvAp(value)
      [] OTHER -> Raise

\* IsEmptyValue with the empty str left out of the tuple.
IsEmptyValueWithoutStr(value) ==
    \/ value.t = "none"
    \/ value.t = "list" /\ value.elems = << >>
    \/ value.t = "dict" /\ value.elems = << >>

\* value in (None, [], {}, "")
IsEmptyValue(value) ==
    \/ value.t = "none"
    \/ value.t = "list" /\ value.elems = << >>
    \/ value.t = "dict" /\ value.elems = << >>
    \/ value.t = "str" /\ value.s = S_Empty

(* ------------------------------------------------------------ inputs --- *)

ValidItem == MapElem([name |-> StrLeaf(S_A), tenant |-> StrLeaf(S_T)])
BlankItem == MapElem([name |-> StrLeaf(S_Empty), tenant |-> StrLeaf(S_T)])
NoTenantItem == MapElem([name |-> StrLeaf(S_A)])

\* The top-level keys a rendered document may hold.
Keys == ConfigHandlers \cup {"render", "nokey"}

EmptyValues == {NoneValue, StrValue(S_Empty), ListValue(<< >>), DictValue(<< >>)}

\* The top-level values a rendered document may hold.
Values ==
    EmptyValues \cup
    { StrValue(S_oops),
      ListValue(<<ValidItem>>),
      ListValue(<<BlankItem>>),
      ListValue(<<NoTenantItem>>),
      ListValue(<<ValidItem, NoTenantItem>>) }

\* What expanding and parsing a template comes to: a document (a mapping, or
\* something else such as None for an empty text), or an exception e of
\* either library, which may or may not carry e.message and e.lineno.
RenderOutcomes ==
    { [ok |-> TRUE, mapping |-> m, hasMessage |-> FALSE, hasLineno |-> FALSE] :
        m \in BOOLEAN } \cup
    { [ok |-> FALSE, mapping |-> FALSE, hasMessage |-> a, hasLineno |-> b] :
        a, b \in BOOLEAN }

(* ------------------------------------------------------- log entries --- *)

\* "[Jinja]: Template ... was rendered sucessfully."
JinjaOkLine == [src |-> "Jinja", key |-> "", outcome |-> "rendered"]
\* "[Jinja] -> [<kind>]: <message>. Line: <lineno>"
JinjaFailLine == [src |-> "Jinja", key |-> "", outcome |-> "error"]
\* "[Cobra] -> [ConfigError]: Class <key> does not exist. "
NotFoundLine(key) == [src |-> "Cobra", key |-> key, outcome |-> "notfound"]
\* "[Cobra]: Class <key> was rendered successfully."
OkLine(key) == [src |-> "Cobra", key |-> key, outcome |-> "ok"]
\* "[Cobra] -> [<kind>]: Class <key> failed: <e>"
FailedLine(key) == [src |-> "Cobra", key |-> key, outcome |-> "failed"]
\* "[Cobra] -> [ConfigError]: No object was found in configuration."
NoObjectLine == [src |-> "Cobra", key |-> "*", outcome |-> "noobject"]

(* ------------------------------------------------------------- state --- *)

VARIABLES
    nTemplates,  \* len(self._template)
    testing,     \* self._testing
    logging,     \* self._logging
    pc,          \* where deploy() is
    tIdx,        \* the template the loop is at, 1..nTemplates
    results,     \* self._results
    dlog,        \* _deploy._log, the log of the DeployResult being built
    jinja,       \* _jinja.result, and whether _jinja.render raised
    plan,        \* self._cobra.config.configMos
    planFrom,    \* per operation of the plan: the template and key it is from
    clog,        \* self._cobra._result._log
    csuccess,    \* self._cobra._result._success
    success,     \* the local variable "success" of CobraClass.render
    cobraRaised, \* whether self._cobra.render raised
    seenKeys,    \* the keys of the document that the loop has been through
    nKeys,       \* the keys dispatched in the run so far
    last,        \* the key and value of the last iteration, and its branch
    pass,        \* the dispatch pass: where it started in clog and plan
    hist,        \* per template processed: what happened to it
    calls,       \* the calls made in the commit sequence, in order
    timerLeft,   \* ticks the countdown thread still has to make
    caught,      \* whether the commit sequence's except clause ran
    auditFile,   \* logging.json
    call         \* the application of a function: its name, whether it was
                 \* applied, its argument and what it returned

vars ==
    << nTemplates, testing, logging, pc, tIdx, results, dlog, jinja, plan,
       planFrom, clog, csuccess, success, cobraRaised, seenKeys, nKeys, last, pass,
       hist, calls, timerLeft, caught, auditFile, call >>

deployVars ==
    << nTemplates, testing, logging, pc, tIdx, results, dlog, jinja, plan,
       planFrom, clog, csuccess, success, cobraRaised, seenKeys, nKeys, last,
       pass, hist, calls, timerLeft, caught, auditFile >>
configVars == << nTemplates, testing, logging >>
engineVars == << plan, planFrom, clog, csuccess >>
passVars == << success, cobraRaised, seenKeys, nKeys, last, pass >>
commitVars == << calls, timerLeft, caught, auditFile >>

\* JinjaResult()
NewJinjaResult ==
    [raised |-> FALSE, success |-> FALSE, log |-> << >>, mapping |-> FALSE]

NoLast == [key |-> "", value |-> NoneValue, branch |-> "none"]

\* The dispatch pass under way: its number, where it started in the engine's
\* log and in the plan, and what its iterations did so far.
NewPass ==
    [ n |-> 0, log0 |-> 0, plan0 |-> 0, allEmpty |-> TRUE,
      nRaised |-> 0, nOk |-> 0, nNotFound |-> 0, okOps |-> << >> ]

\* DeployClass(...) before deploy() is called.
NewDeploy ==
    /\ pc = "start"
    /\ tIdx = 0
    /\ results = << >>
    /\ dlog = << >>
    /\ jinja = NewJinjaResult
    /\ plan = << >>
    /\ planFrom = << >>
    /\ clog = << >>
    /\ csuccess = FALSE
    /\ success = "Unbound"
    /\ cobraRaised = FALSE
    /\ seenKeys = {}
    /\ nKeys = 0
    /\ last = NoLast
    /\ pass = NewPass
    /\ hist = << >>
    /\ calls = << >>
    /\ timerLeft = 0
    /\ caught = FALSE
    /\ auditFile = [written |-> FALSE, records |-> << >>]

\* No function is under application: deploy() is.
NoCall == [fn |-> "none", stage |-> "idle"]

Init ==
    /\ nTemplates \in 0..MaxTemplates
    /\ testing \in BOOLEAN
    /\ logging \in BOOLEAN
    /\ NewDeploy
    /\ call = NoCall

(* ------------------------------------------------- JinjaClass.render --- *)

\* JinjaClass.render on a template that comes to outcome o.  The except
\* clause formats e.message and e.lineno before it assigns the log.
JinjaRender(o) ==
    IF o.ok
    THEN [raised |-> FALSE, success |-> TRUE, log |-> <<JinjaOkLine>>,
          mapping |-> o.mapping]
    ELSE IF o.hasMessage /\ o.hasLineno
    THEN [raised |-> FALSE, success |-> FALSE, log |-> <<JinjaFailLine>>,
          mapping |-> FALSE]
    ELSE [raised |-> TRUE, success |-> FALSE, log |-> << >>, mapping |-> FALSE]

(* ------------------------------------------------- CobraClass.render --- *)

\* Where the operations ops come from, one entry per operation.
From(tag, ops) == [i \in 1..Len(ops) |-> tag]

\* LoopBody with addMo putting an operation in front of the plan.
LoopBodyPrepending(e, key, value) ==
    IF IsEmptyValue(value)
    THEN [plan |-> e.plan, from |-> e.from, log |-> e.log,
          success |-> e.success, branch |-> "skip"]
    ELSE IF ~ IsCallable(key)
    THEN [plan |-> e.plan, from |-> e.from,
          log |-> Append(e.log, NotFoundLine(key)),
          success |-> "False", branch |-> "notfound"]
    ELSE LET r == Call(key, value) IN
         IF r.raised
         THEN [plan |-> r.ops \o e.plan, from |-> From(e.tag, r.ops) \o e.from,
               log |-> Append(e.log, FailedLine(key)),
               success |-> "False", branch |-> "failed"]
         ELSE [plan |-> r.ops \o e.plan, from |-> From(e.tag, r.ops) \o e.from,
               log |-> Append(e.log, OkLine(key)),
               success |-> "True", branch |-> "ok"]

\* One iteration of "for key, value in jinja.output.items()" from the engine
\* state e = [plan, from, log, success], where e.tag names the template and
\* the place of the key among the keys of its document that are not skipped.
LoopBody(e, key, value) ==
    IF IsEmptyValue(value)
    THEN [plan |-> e.plan, from |-> e.from, log |-> e.log,
          success |-> e.success, branch |-> "skip"]
    ELSE IF ~ IsCallable(key)
    THEN [plan |-> e.plan, from |-> e.from,
          log |-> Append(e.log, NotFoundLine(key)),
          success |-> "False", branch |-> "notfound"]
    ELSE LET r == Call(key, value) IN
         IF r.raised
         THEN [plan |-> e.plan \o r.ops, from |-> e.from \o From(e.tag, r.ops),
               log |-> Append(e.log, FailedLine(key)),
               success |-> "False", branch |-> "failed"]
         ELSE [plan |-> e.plan \o r.ops, from |-> e.from \o From(e.tag, r.ops),
               log |-> Append(e.log, OkLine(key)),
               success |-> "True", branch |-> "ok"]

\* PassEnd with "success = False" left out of the empty-plan check.
PassEndWithoutForce(e) ==
    LET log1 == IF e.plan = << >> THEN Append(e.log, NoObjectLine) ELSE e.log
    IN  [log |-> log1,
         raised |-> e.success = "Unbound",
         csuccess |-> IF e.success = "Unbound" THEN e.csuccess
                      ELSE e.success = "True"]

\* The end of CobraClass.render: the empty-plan check, then
\* "self._result.success = success", which raises UnboundLocalError when no
\* iteration and no empty-plan check assigned the local variable.
PassEnd(e) ==
    LET log1 == IF e.plan = << >> THEN Append(e.log, NoObjectLine) ELSE e.log
        success1 == IF e.plan = << >> THEN "False" ELSE e.success
    IN  [log |-> log1,
         raised |-> success1 = "Unbound",
         csuccess |-> IF success1 = "Unbound" THEN e.csuccess
                      ELSE success1 = "True"]

(* ------------------------------------------------ DeployClass.deploy --- *)

\* _deploy.json, as far as the audit file is concerned.
DeployRecord(ok, log) == [name |-> tIdx, success |-> ok, log |-> log]

\* What happened to the template whose record is being appended: whether its
\* render succeeded, whether its dispatch pass ran and, if it did, whether
\* the pass reported no class-not-found, had no handler raise and ended with
\* a plan that is not empty.
HistEntry(rendered, dispatched) ==
    [ name |-> tIdx,
      rendered |-> rendered,
      dispatched |-> dispatched,
      overall |-> /\ dispatched
                  /\ pass.nNotFound = 0
                  /\ pass.nRaised = 0
                  /\ plan # << >> ]

\* The entries the dispatch pass under way has appended to the engine's log.
PassLog == SubSeq(clog, pass.log0 + 1, Len(clog))

\* The operations the dispatch pass under way has appended to the plan.
PassOps == SubSeq(plan, pass.plan0 + 1, Len(plan))

\* NoTemplates with the return left out: deploy() goes on to what follows the
\* loop.
NoTemplatesWithoutReturn ==
    /\ pc = "start"
    /\ nTemplates = 0
    /\ pc' = "gate"
    /\ UNCHANGED call
    /\ UNCHANGED << configVars, tIdx, results, dlog, jinja, engineVars,
                    passVars, hist, commitVars >>

\* "if not self._template: ... return"
NoTemplates ==
    /\ pc = "start"
    /\ nTemplates = 0
    /\ pc' = "done"
    /\ UNCHANGED call
    /\ UNCHANGED << configVars, tIdx, results, dlog, jinja, engineVars,
                    passVars, hist, commitVars >>

\* "for template, path in self._template": the next template, with a new
\* DeployResult and a new JinjaClass, or the end of the loop.
LoopHead ==
    /\ \/ pc = "start" /\ nTemplates > 0
       \/ pc = "next"
    /\ IF tIdx < nTemplates
       THEN /\ tIdx' = tIdx + 1
            /\ dlog' = << >>
            /\ jinja' = NewJinjaResult
            /\ pc' = "jinja"
       ELSE /\ pc' = "gate"
            /\ UNCHANGED << tIdx, dlog, jinja >>
    /\ UNCHANGED call
    /\ UNCHANGED << configVars, results, engineVars, passVars, hist,
                    commitVars >>

\* "_jinja.render(**self._variables)"
JinjaStep ==
    /\ pc = "jinja"
    /\ \E o \in RenderOutcomes : jinja' = JinjaRender(o)
    /\ pc' = "rendered"
    /\ UNCHANGED call
    /\ UNCHANGED << configVars, tIdx, results, dlog, engineVars, passVars,
                    hist, commitVars >>

\* _jinja.render raised: the except clause of the loop body records the
\* template as failed, with the log as it is.
RenderRaised ==
    /\ pc = "rendered"
    /\ jinja.raised
    /\ results' = Append(results, DeployRecord(FALSE, dlog))
    /\ hist' = Append(hist, HistEntry(FALSE, FALSE))
    /\ pc' = "next"
    /\ UNCHANGED call
    /\ UNCHANGED << configVars, tIdx, dlog, jinja, engineVars, passVars,
                    commitVars >>

\* RenderFailed with the failure of the render written to the engine's flag.
RenderFailedFlaggingEngine ==
    /\ pc = "rendered"
    /\ ~ jinja.raised
    /\ ~ jinja.success
    /\ dlog' = dlog \o jinja.log
    /\ results' = Append(results, DeployRecord(FALSE, dlog'))
    /\ hist' = Append(hist, HistEntry(FALSE, FALSE))
    /\ csuccess' = FALSE
    /\ pc' = "next"
    /\ UNCHANGED call
    /\ UNCHANGED << configVars, tIdx, jinja, plan, planFrom, clog, passVars,
                    commitVars >>

\* _jinja.render returned a failure: "_deploy.log = _jinja.result.log", then
\* RuntimeError, and the except clause records the template as failed.
RenderFailed ==
    /\ pc = "rendered"
    /\ ~ jinja.raised
    /\ ~ jinja.success
    /\ dlog' = dlog \o jinja.log
    /\ results' = Append(results, DeployRecord(FALSE, dlog'))
    /\ hist' = Append(hist, HistEntry(FALSE, FALSE))
    /\ pc' = "next"
    /\ UNCHANGED call
    /\ UNCHANGED << configVars, tIdx, jinja, engineVars, passVars,
                    commitVars >>

\* _jinja.render succeeded: "_deploy.log = _jinja.result.log", then
\* self._cobra.render(_jinja.result) starts on a document that is a mapping.
DispatchBegin ==
    /\ pc = "rendered"
    /\ ~ jinja.raised
    /\ jinja.success
    /\ jinja.mapping
    /\ dlog' = dlog \o jinja.log
    /\ success' = "Unbound"
    /\ cobraRaised' = FALSE
    /\ seenKeys' = {}
    /\ last' = NoLast
    /\ pass' = [NewPass EXCEPT !.n = pass.n + 1, !.log0 = Len(clog),
                                !.plan0 = Len(plan)]
    /\ pc' = "dispatch"
    /\ UNCHANGED call
    /\ UNCHANGED << configVars, tIdx, results, jinja, engineVars, nKeys, hist,
                    commitVars >>

\* _jinja.render succeeded with a document that is no mapping:
\* "jinja.output.items()" raises AttributeError before the loop, and the
\* except clause records the template as failed.
DispatchNotMapping ==
    /\ pc = "rendered"
    /\ ~ jinja.raised
    /\ jinja.success
    /\ ~ jinja.mapping
    /\ dlog' = dlog \o jinja.log
    /\ results' = Append(results, DeployRecord(FALSE, dlog'))
    /\ hist' = Append(hist, HistEntry(TRUE, FALSE))
    /\ pc' = "next"
    /\ UNCHANGED call
    /\ UNCHANGED << configVars, tIdx, jinja, engineVars, passVars,
                    commitVars >>

\* One iteration of the loop of CobraClass.render, on the next key of the
\* document and its value.
DispatchKey ==
    /\ pc = "dispatch"
    /\ nKeys < MaxKeys
    /\ \E key \in Keys \ seenKeys, value \in Values :
         LET r == LoopBody([plan |-> plan, from |-> planFrom, log |-> clog,
                            success |-> success,
                            tag |-> [t |-> tIdx,
                                     k |-> pass.nOk + pass.nRaised
                                             + pass.nNotFound + 1]],
                           key, value)
         IN  /\ plan' = r.plan
             /\ planFrom' = r.from
             /\ clog' = r.log
             /\ success' = r.success
             /\ seenKeys' = seenKeys \cup {key}
             /\ nKeys' = nKeys + 1
             /\ last' = [key |-> key, value |-> value, branch |-> r.branch]
             /\ pass' = [pass EXCEPT
                    !.allEmpty = @ /\ value \in EmptyValues,
                    !.nRaised = IF r.branch = "failed" THEN @ + 1 ELSE @,
                    !.nOk = IF r.branch = "ok" THEN @ + 1 ELSE @,
                    !.nNotFound = IF r.branch = "notfound" THEN @ + 1 ELSE @,
                    !.okOps = IF r.branch = "ok"
                              THEN @ \o SubSeq(r.plan, Len(plan) + 1, Len(r.plan))
                              ELSE @]
    /\ UNCHANGED call
    /\ UNCHANGED << configVars, pc, tIdx, results, dlog, jinja, csuccess,
                    cobraRaised, hist, commitVars >>

\* The document has no more keys: the end of CobraClass.render.
DispatchEnd ==
    /\ pc = "dispatch"
    /\ LET r == PassEnd([plan |-> plan, log |-> clog, success |-> success,
                         csuccess |-> csuccess])
       IN  /\ clog' = r.log
           /\ csuccess' = r.csuccess
           /\ cobraRaised' = r.raised
    /\ pc' = "returned"
    /\ UNCHANGED call
    /\ UNCHANGED << configVars, tIdx, results, dlog, jinja, plan, planFrom,
                    success, seenKeys, nKeys, last, pass, hist, commitVars >>

\* Record with the operations of a failed pass taken out of the plan.
RecordWithRollback ==
    /\ pc = "returned"
    /\ dlog' = IF cobraRaised THEN dlog ELSE dlog \o clog
    /\ results' = Append(results,
                         DeployRecord(~ cobraRaised /\ csuccess, dlog'))
    /\ hist' = Append(hist, HistEntry(TRUE, TRUE))
    /\ plan' = IF ~ cobraRaised /\ csuccess THEN plan
               ELSE SubSeq(plan, 1, pass.plan0)
    /\ planFrom' = SubSeq(planFrom, 1, Len(plan'))
    /\ success' = "Unbound"
    /\ seenKeys' = {}
    /\ last' = NoLast
    /\ pc' = "next"
    /\ UNCHANGED call
    /\ UNCHANGED << configVars, tIdx, jinja, clog, csuccess, cobraRaised,
                    nKeys, pass, commitVars >>

\* Back in deploy() after self._cobra.render: when it raised, the except
\* clause; otherwise "_deploy.log = self._cobra.result.log" and the success
\* of the record is the engine's flag.  The locals of render are gone.
Record ==
    /\ pc = "returned"
    /\ dlog' = IF cobraRaised THEN dlog ELSE dlog \o clog
    /\ results' = Append(results,
                         DeployRecord(~ cobraRaised /\ csuccess, dlog'))
    /\ hist' = Append(hist, HistEntry(TRUE, TRUE))
    /\ success' = "Unbound"
    /\ seenKeys' = {}
    /\ last' = NoLast
    /\ pc' = "next"
    /\ UNCHANGED call
    /\ UNCHANGED << configVars, tIdx, jinja, engineVars, cobraRaised, nKeys,
                    pass, commitVars >>

\* ShouldCommit with the test of the engine's flag left out.
ShouldCommitWithoutFlag(dryRun, flag) == ~ dryRun

\* ShouldCommit with the dry-run test left out.
ShouldCommitInDryRun(dryRun, flag) == flag

\* "not self._testing and self._cobra.result.success"
ShouldCommit(dryRun, flag) == ~ dryRun /\ flag

\* "if not self._testing and self._cobra.result.success:"
Gate ==
    /\ pc = "gate"
    /\ pc' = IF ShouldCommit(testing, csuccess) THEN "timer" ELSE "audit"
    /\ UNCHANGED call
    /\ UNCHANGED << configVars, tIdx, results, dlog, jinja, engineVars,
                    passVars, hist, commitVars >>

\* "timer_thread = self.start_timer(...)": the thread starts, or
\* Thread.start() raises.
StartTimer ==
    /\ pc = "timer"
    /\ calls' = Append(calls, "timer")
    /\ \E raises \in BOOLEAN :
         IF raises
         THEN pc' = "except" /\ timerLeft' = 0
         ELSE pc' = "join" /\ timerLeft' = TimerSecs + 1
    /\ UNCHANGED call
    /\ UNCHANGED << configVars, tIdx, results, dlog, jinja, engineVars,
                    passVars, hist, caught, auditFile >>

\* DeployClass.timer, in its thread: one pass of
\* "for remaining in range(total, -1, -1)".
TimerTick ==
    /\ timerLeft > 0
    /\ timerLeft' = timerLeft - 1
    /\ UNCHANGED call
    /\ UNCHANGED << configVars, pc, tIdx, results, dlog, jinja, engineVars,
                    passVars, hist, calls, caught, auditFile >>

\* Join without the wait: the main flow goes on while the thread runs.
JoinWithoutWait ==
    /\ pc = "join"
    /\ pc' = "login"
    /\ UNCHANGED call
    /\ UNCHANGED << configVars, tIdx, results, dlog, jinja, engineVars,
                    passVars, hist, commitVars >>

\* "timer_thread.join()" returns once the thread has ended.
Join ==
    /\ pc = "join"
    /\ timerLeft = 0
    /\ pc' = "login"
    /\ UNCHANGED call
    /\ UNCHANGED << configVars, tIdx, results, dlog, jinja, engineVars,
                    passVars, hist, commitVars >>

\* Login with an error of login() caught on the spot, the flow going on to the
\* commit.
LoginErrorSwallowed ==
    /\ pc = "login"
    /\ calls' = Append(calls, "login")
    /\ \E raises \in BOOLEAN : caught' = (caught \/ raises)
    /\ pc' = "commit"
    /\ UNCHANGED call
    /\ UNCHANGED << configVars, tIdx, results, dlog, jinja, engineVars,
                    passVars, hist, timerLeft, auditFile >>

\* "self.__modir.login()"
Login ==
    /\ pc = "login"
    /\ calls' = Append(calls, "login")
    /\ \E raises \in BOOLEAN : pc' = IF raises THEN "except" ELSE "commit"
    /\ UNCHANGED call
    /\ UNCHANGED << configVars, tIdx, results, dlog, jinja, engineVars,
                    passVars, hist, timerLeft, caught, auditFile >>

\* "self.__modir.commit(self._cobra.config)"
Commit ==
    /\ pc = "commit"
    /\ calls' = Append(calls, "commit")
    /\ \E raises \in BOOLEAN : pc' = IF raises THEN "except" ELSE "finally"
    /\ UNCHANGED call
    /\ UNCHANGED << configVars, tIdx, results, dlog, jinja, engineVars,
                    passVars, hist, timerLeft, caught, auditFile >>

\* Except with logout() at the end of the try body, not in a finally clause.
ExceptWithoutFinally ==
    /\ pc = "except"
    /\ caught' = TRUE
    /\ pc' = "audit"
    /\ UNCHANGED call
    /\ UNCHANGED << configVars, tIdx, results, dlog, jinja, engineVars,
                    passVars, hist, calls, timerLeft, auditFile >>

\* "except Exception as e: print(...)"
Except ==
    /\ pc = "except"
    /\ caught' = TRUE
    /\ pc' = "finally"
    /\ UNCHANGED call
    /\ UNCHANGED << configVars, tIdx, results, dlog, jinja, engineVars,
                    passVars, hist, calls, timerLeft, auditFile >>

\* "finally: ... self.__modir.logout()"
Logout ==
    /\ pc = "finally"
    /\ calls' = Append(calls, "logout")
    /\ pc' = "audit"
    /\ UNCHANGED call
    /\ UNCHANGED << configVars, tIdx, results, dlog, jinja, engineVars,
                    passVars, hist, timerLeft, caught, auditFile >>

\* Audit with the write inside the try body of the commit sequence, so that
\* an error of the sequence skips it.
AuditUnlessCaught ==
    /\ pc = "audit"
    /\ auditFile' = IF logging /\ ~ caught
                    THEN [written |-> TRUE, records |-> results]
                    ELSE auditFile
    /\ pc' = "done"
    /\ UNCHANGED call
    /\ UNCHANGED << configVars, tIdx, results, dlog, jinja, engineVars,
                    passVars, hist, calls, timerLeft, caught >>

\* "if self._logging: ... json.dump(self._results, f, ...)", and the return.
Audit ==
    /\ pc = "audit"
    /\ auditFile' = IF logging THEN [written |-> TRUE, records |-> results]
                    ELSE auditFile
    /\ pc' = "done"
    /\ UNCHANGED call
    /\ UNCHANGED << configVars, tIdx, results, dlog, jinja, engineVars,
                    passVars, hist, calls, timerLeft, caught >>

Next ==
    \/ NoTemplates
    \/ LoopHead
    \/ JinjaStep
    \/ RenderRaised
    \/ RenderFailed
    \/ DispatchBegin
    \/ DispatchNotMapping
    \/ DispatchKey
    \/ DispatchEnd
    \/ Record
    \/ Gate
    \/ StartTimer
    \/ TimerTick
    \/ Join
    \/ Login
    \/ Commit
    \/ Except
    \/ Logout
    \/ Audit

Spec == Init /\ [][Next]_vars

(* ---------------------------------------------------- pure functions --- *)

\* The scalar leaves the functions are applied to.
Leaves ==
    { NoneLeaf, StrLeaf(S_Empty), StrLeaf(S_Blank), StrLeaf(S_nan),
      StrLeaf(S_NaN), StrLeaf(S_PaddedNan), StrLeaf(S_nanx), StrLeaf(S_A),
      FloatLeaf(TRUE), FloatLeaf(FALSE), IntLeaf(<<"7">>) }

\* The mappings not_nan_str is applied to, and the collections of keys.
AttrKeys == {"name", "tenant"}
Mappings == UNION {[D -> Leaves] : D \in SUBSET AttrKeys}
RequiredSets == SUBSET (AttrKeys \cup {"descr"})

\* The leaves put next to a document when it is nested one level deeper.
SiblingLeaves == {StrLeaf(S_PaddedNan), StrLeaf(S_NaN), StrLeaf(S_A)}

\* A document nested one level deeper, in a list or in a mapping.
Nestings(d) ==
    {ListNode(<<d>>), DictNode(<<"name">>, <<d>>)} \cup
    UNION { { ListNode(<<d, LeafNode(l)>>),
              ListNode(<<LeafNode(l), d>>),
              DictNode(<<"name", "descr">>, <<d, LeafNode(l)>>) } :
            l \in SiblingLeaves }

RECURSIVE Depth(_)
Depth(d) ==
    IF d.t = "leaf" THEN 0
    ELSE IF d.kids = << >> THEN 1
    ELSE 1 + (CHOOSE n \in {Depth(d.kids[i]) : i \in 1..Len(d.kids)} :
                 \A i \in 1..Len(d.kids) : Depth(d.kids[i]) <= n)

\* The texts load is applied to, each one plain scalar.
ScalarTexts ==
    { <<"0", "0", "7">>, <<"7">>, <<"+", "1", "2">>, <<"-", "5">>,
      <<"0", "8">>, <<"1", ".", "5", "0">>, <<"-", "0", ".", "5">>, S_DotNan,
      S_yes, S_No, S_True, S_FALSE, S_on, S_A, S_nan, S_Tilde }

\* The values of the attribute that an optional sub-object is gated on.
KeyLeaves ==
    {StrLeaf(S_A), StrLeaf(S_Empty), StrLeaf(S_Blank), StrLeaf(S_nan), NoneLeaf}

\* The mapping m as it is, and with attribute key set to each one of vals.
Opt(m, key, vals) == {m} \cup {(key :> v) @@ m : v \in vals}

\* Sub-objects that hold attribute key alone, and lists of one or two of them.
SubMaps(key) == {MapElem(key :> l) : l \in KeyLeaves}
SubLists(key) ==
    {ListAttr(<<a>>) : a \in SubMaps(key)} \cup
    {ListAttr(<<a, b>>) : a, b \in SubMaps(key)}

\* The items CobraClass.fvBD is applied to: a BD with or without fvRsCtx (a
\* mapping, or null), fvRsBDToOut and fvSubnet (a list; one subnet lacks ip).
BDItems(name) ==
    LET base == ("tenant" :> StrLeaf(S_T)) @@ ("name" :> StrLeaf(name))
        s1 == Opt(base, "fvRsCtx", SubMaps("tnFvCtxName") \cup {NoneLeaf})
        s2 == UNION {Opt(m, "fvRsBDToOut", SubMaps("tnL3extOutName")) : m \in s1}
        s3 == UNION {Opt(m, "fvSubnet", SubLists("ip") \cup
                         {ListAttr(<<MapElem("descr" :> StrLeaf(S_A))>>)}) :
                     m \in s2}
    IN  {MapElem(m) : m \in s3}

\* A BD with every optional child the handler knows, all of them valid.
FullBDItem ==
    MapElem( ("tenant" :> StrLeaf(S_T)) @@ ("name" :> StrLeaf(S_A)) @@
             ("fvRsCtx" :> MapElem("tnFvCtxName" :> StrLeaf(S_A))) @@
             ("igmpIfP" :> MapElem("name" :> StrLeaf(S_A))) @@
             ("fvRsBdToEpRet" :> MapElem("tnFvEpRetPolName" :> StrLeaf(S_A))) @@
             ("fvRsIgmpsn" :> MapElem("tnIgmpSnoopPolName" :> StrLeaf(S_A))) @@
             ("fvRsMldsn" :> MapElem("tnMldSnoopPolName" :> StrLeaf(S_A))) @@
             ("fvRsBDToOut" :> MapElem("tnL3extOutName" :> StrLeaf(S_A))) @@
             ("fvSubnet" :> ListAttr(<<MapElem("ip" :> StrLeaf(S_A))>>)) )

\* The values CobraClass.fvBD is applied to.
BDValues ==
    {ListValue(<<x>>) : x \in BDItems(S_A)} \cup
    {ListValue(<<x, y>>) :
        x \in {z \in BDItems(S_A) : DOMAIN z.m \subseteq {"tenant", "name", "fvRsCtx"}},
        y \in {z \in BDItems(S_oops) : DOMAIN z.m \subseteq {"tenant", "name", "fvSubnet"}
                                        /\ ("fvSubnet" \in DOMAIN z.m =>
                                              Len(z.m.fvSubnet.elems) = 1)}} \cup
    { ListValue(<<FullBDItem>>), ListValue(<<NoTenantItem>>), StrValue(S_oops) }

\* A static path of an AEPg, with the given mode.
PathSub(mode) ==
    MapElem( ("tDn" :> StrLeaf(S_nanx)) @@ ("primaryEncap" :> StrLeaf(S_A)) @@
             ("mode" :> mode) )

\* The items CobraClass.fvAEPg is applied to: an AEPg with or without fvRsBd,
\* fvRsDomAtt (a list of one) and fvRsPathAtt (a list of one or two).
AEPgItems ==
    LET base == ("tenant" :> StrLeaf(S_T)) @@ ("fvApName" :> StrLeaf(S_A)) @@
                ("name" :> StrLeaf(S_oops))
        s1 == Opt(base, "fvRsBd", SubMaps("tnFvBDName"))
        s2 == UNION {Opt(m, "fvRsDomAtt",
                         {ListAttr(<<a>>) : a \in SubMaps("tDn")}) : m \in s1}
        s3 == UNION {Opt(m, "fvRsPathAtt",
                         {ListAttr(<<PathSub(l)>>) : l \in KeyLeaves} \cup
                         {ListAttr(<<PathSub(l), PathSub(StrLeaf(S_A))>>) :
                             l \in KeyLeaves}) : m \in s2}
    IN  {MapElem(m) : m \in s3}

\* The values CobraClass.fvAEPg is applied to.
AEPgValues ==
    {ListValue(<<x>>) : x \in AEPgItems} \cup
    { ListValue(<<NoTenantItem>>), StrValue(S_oops) }

\* The items CobraClass.fvRsPathAtt is applied to: each attribute of the chain
\* is valid, blank or missing.
StaticPathItems ==
    LET s1 == Opt("primaryEncap" :> StrLeaf(S_A), "tenant",
                  {StrLeaf(S_T), StrLeaf(S_Blank)})
        s2 == UNION {Opt(m, "fvApName", {StrLeaf(S_A), StrLeaf(S_Empty)}) :
                     m \in s1}
        s3 == UNION {Opt(m, "fvAEPgName", {StrLeaf(S_oops), NoneLeaf}) :
                     m \in s2}
        s4 == UNION {Opt(m, "tDn", {StrLeaf(S_nanx), StrLeaf(S_nan)}) :
                     m \in s3}
        s5 == UNION {Opt(m, "mode", {StrLeaf(S_A), FloatLeaf(TRUE)}) : m \in s4}
    IN  {MapElem(m) : m \in s5}

\* A static path with every attribute of the chain valid.
FullStaticPath ==
    MapElem( ("tenant" :> StrLeaf(S_T)) @@ ("fvApName" :> StrLeaf(S_A)) @@
             ("fvAEPgName" :> StrLeaf(S_oops)) @@ ("tDn" :> StrLeaf(S_nanx)) @@
             ("primaryEncap" :> StrLeaf(S_A)) @@ ("mode" :> StrLeaf(S_A)) )

\* The values CobraClass.fvRsPathAtt is applied to.
StaticPathValues ==
    {ListValue(<<x>>) : x \in StaticPathItems} \cup
    {ListValue(<<FullStaticPath, x>>) :
        x \in {z \in StaticPathItems : "mode" \notin DOMAIN z.m}} \cup
    { StrValue(S_oops) }

\* The application of function f to argument arg, before and after.
Input(f, arg) == [fn |-> f, stage |-> "input", arg |-> arg, ret |-> arg]
Output(c, ret) == [c EXCEPT !.stage = "output", !.ret = ret]

InitFunctions ==
    /\ nTemplates = 0
    /\ testing = FALSE
    /\ logging = FALSE
    /\ NewDeploy
    /\ \/ \E m \in Mappings, K \in RequiredSets :
            call = [fn |-> "not_nan_str", stage |-> "input",
                    arg |-> [value |-> m, keys |-> K], ret |-> FALSE]
       \/ \E l \in Leaves :
            call = Input("replace_str_nan_with_empty", LeafNode(l))
       \/ call = Input("replace_str_nan_with_empty", ListNode(<< >>))
       \/ call = Input("replace_str_nan_with_empty", DictNode(<< >>, << >>))
       \/ \E s \in ScalarTexts :
            call = [fn |-> "load", stage |-> "input", arg |-> s,
                    ret |-> NoneLeaf]
       \/ \E v \in BDValues : call = Input("fvBD", v)
       \/ \E v \in AEPgValues : call = Input("fvAEPg", v)
       \/ \E v \in StaticPathValues : call = Input("fvRsPathAtt", v)

\* The document is an item of a list, or a value of a mapping, of a larger
\* document.
Nest ==
    /\ call.fn = "replace_str_nan_with_empty"
    /\ call.stage = "input"
    /\ Depth(call.arg) < MaxDepth
    /\ \E d \in Nestings(call.arg) :
         call' = Input("replace_str_nan_with_empty", d)
    /\ UNCHANGED deployVars

\* not_nan_str(value, keys)
ApplyNotNanStr ==
    /\ call.fn = "not_nan_str"
    /\ call.stage = "input"
    /\ call' = Output(call, not_nan_str(call.arg.value, call.arg.keys))
    /\ UNCHANGED deployVars

\* replace_str_nan_with_empty(obj)
ApplyReplace ==
    /\ call.fn = "replace_str_nan_with_empty"
    /\ call.stage = "input"
    /\ call' = Output(call, replace_str_nan_with_empty(call.arg))
    /\ UNCHANGED deployVars

\* "self._result.output = replace_str_nan_with_empty(load(output,
\* MySafeLoader))" on a text that is one plain scalar.
ApplyLoad ==
    /\ call.fn = "load"
    /\ call.stage = "input"
    /\ call' = Output(call, RenderScalar(call.arg))
    /\ UNCHANGED deployVars

\* CobraClass.fvBD(value), on a plan of its own: what it appends, and whether
\* it raises.
ApplyFvBD ==
    /\ call.fn = "fvBD"
    /\ call.stage = "input"
    /\ call' = Output(call, fvBD(call.arg))
    /\ UNCHANGED deployVars

\* CobraClass.fvAEPg(value)
ApplyFvAEPg ==
    /\ call.fn = "fvAEPg"
    /\ call.stage = "input"
    /\ call' = Output(call, fvAEPg(call.arg))
    /\ UNCHANGED deployVars

\* CobraClass.fvRsPathAtt(value)
ApplyFvRsPathAtt ==
    /\ call.fn = "fvRsPathAtt"
    /\ call.stage = "input"
    /\ call' = Output(call, fvRsPathAtt(call.arg))
    /\ UNCHANGED deployVars

NextFunctions ==
    \/ Nest
    \/ ApplyNotNanStr
    \/ ApplyReplace
    \/ ApplyLoad
    \/ ApplyFvBD
    \/ ApplyFvAEPg
    \/ ApplyFvRsPathAtt

SpecFunctions == InitFunctions /\ [][NextFunctions]_vars

(* ------------------------------------------------------------ claims --- *)

Range(seq) == {seq[i] : i \in 1..Len(seq)}

\* How many entries of a log have the given outcome.
CountOutcome(log, outcome) ==
    Cardinality({i \in 1..Len(log) : log[i].outcome = outcome})

\* How many times a call occurs in the commit sequence.
CountCall(name) == Cardinality({i \in 1..Len(calls) : calls[i] = name})

\* Whether the elements of a occur in b, in the order of a.
RECURSIVE IsSubseq(_, _)
IsSubseq(a, b) ==
    IF a = << >> THEN TRUE
    ELSE IF b = << >> THEN FALSE
    ELSE IF Head(a) = Head(b) THEN IsSubseq(Tail(a), Tail(b))
    ELSE IsSubseq(a, Tail(b))

\* deploy() is in the commit sequence.
InCommitSequence ==
    pc \in {"timer", "join", "login", "commit", "except", "finally"}

\* C1.  When CobraClass.render returns, the flag it leaves in result.success
\* is true if and only if the pass reported no key as class-not-found, no
\* handler raised and the plan is not empty.
C1_FlagIsConjunction ==
    (pc = "returned" /\ ~ cobraRaised) =>
        (csuccess <=> /\ CountOutcome(PassLog, "notfound") = 0
                      /\ CountOutcome(PassLog, "failed") = 0
                      /\ plan # << >>)

\* C2.  When, in a document of configuration handlers' keys, one handler
\* raises and the others succeed, the pass returns, the plan holds the
\* operations of the succeeding handlers, the pass logged one failed entry
\* and one ok entry per succeeding key, and the flag is false.
C2_DispatchIsolation ==
    ( /\ pc = "returned"
      /\ seenKeys \subseteq ConfigHandlers
      /\ pass.nRaised = 1
      /\ pass.nOk >= 1 ) =>
        /\ ~ cobraRaised
        /\ IsSubseq(pass.okOps, PassOps)
        /\ CountOutcome(PassLog, "failed") = 1
        /\ CountOutcome(PassLog, "ok") = pass.nOk
        /\ csuccess = FALSE

\* C3.  An iteration on a key that has no configuration handler, with a
\* value that is not empty, appends one class-not-found entry for the key to
\* the log, leaves the plan alone, sets the local flag to false and goes on
\* with the loop; it takes no other branch.
C3_UnknownKeyNotFound ==
    [][ ( /\ pc = "dispatch"
          /\ nKeys' = nKeys + 1
          /\ last'.key \notin ConfigHandlers
          /\ last'.value \notin EmptyValues ) =>
            /\ last'.branch = "notfound"
            /\ clog' = Append(clog, NotFoundLine(last'.key))
            /\ plan' = plan
            /\ success' = "False"
            /\ pc' = "dispatch" ]_vars

\* C4.  An iteration on a key whose value is None, "", [] or {} takes the
\* skip branch: the log, the plan, the local flag and the engine's flag are
\* what they were.
C4_EmptyValueSkipped ==
    [][ ( /\ pc = "dispatch"
          /\ nKeys' = nKeys + 1
          /\ last'.value \in EmptyValues ) =>
            /\ last'.branch = "skip"
            /\ clog' = clog
            /\ plan' = plan
            /\ success' = success
            /\ csuccess' = csuccess
            /\ pc' = "dispatch" ]_vars

\* An iteration has just skipped a key whose value is empty.
C4_Witness ==
    /\ pc = "dispatch"
    /\ last.branch = "skip"
    /\ last.value \in EmptyValues

\* C5.  The first pass of an engine, on a document whose values are all
\* empty, returns with an empty plan, a log that is the one "no object was
\* found" entry, and the flag false.
C5_EmptyPlanRule ==
    (pc = "returned" /\ pass.n = 1 /\ pass.allEmpty) =>
        /\ ~ cobraRaised
        /\ plan = << >>
        /\ clog = <<NoObjectLine>>
        /\ CountOutcome(clog, "failed") = 0
        /\ CountOutcome(clog, "notfound") = 0
        /\ csuccess = FALSE

\* The first pass has returned from a document that has keys, all with
\* empty values.
C5_Witness ==
    /\ pc = "returned"
    /\ pass.n = 1
    /\ pass.allEmpty
    /\ seenKeys # {}
    /\ clog = <<NoObjectLine>>

\* C6.  JinjaClass.render returns on every error, with result.success false
\* and a failure line in result.log.
C6_RenderNeverRaises ==
    (pc = "rendered" /\ ~ jinja.success) =>
        /\ ~ jinja.raised
        /\ jinja.log = <<JinjaFailLine>>

\* C7.  When deploy() is done with N templates, the result list, and the
\* audit file when logging is on, hold N records in template order, and
\* record i is a success if and only if template i rendered and its dispatch
\* pass was a success overall.
C7_AuditMatchesOutcomes ==
    (pc = "done" /\ nTemplates > 0) =>
        /\ Len(results) = nTemplates
        /\ Len(hist) = nTemplates
        /\ \A i \in 1..Len(results) :
             /\ results[i].name = i
             /\ hist[i].name = i
             /\ results[i].success <=> (hist[i].rendered /\ hist[i].overall)
        /\ logging => (auditFile.written /\ auditFile.records = results)

\* C8.  The record of a template whose render failed is a failure, its log
\* holds the renderer's failure line, and no dispatch pass ran for it.
C8_RenderFailureRecorded ==
    \A i \in 1..Len(hist) :
        ~ hist[i].rendered =>
            /\ results[i].success = FALSE
            /\ JinjaFailLine \in Range(results[i].log)
            /\ ~ hist[i].dispatched

\* C9.  The commit sequence is entered if and only if the run is not a dry
\* run and the engine's flag is true after the loop: otherwise none of the
\* countdown, login, commit and logout is called.
C9_CommitGate ==
    /\ (InCommitSequence \/ calls # << >>) => (~ testing /\ csuccess)
    /\ (pc \in {"audit", "done"} /\ ~ testing /\ csuccess) =>
           (calls # << >> /\ calls[1] = "timer")

\* A run has ended after submitting the commit request.
C9_Witness ==
    /\ pc = "done"
    /\ ~ testing
    /\ calls = <<"timer", "login", "commit", "logout">>

\* C10.  Once the commit sequence is entered, logout is called once, after
\* the attempt and whatever the attempt came to, and deploy() goes on to the
\* audit step: no error of the countdown, login or commit leaves it.
C10_LogoutAlways ==
    /\ InCommitSequence => CountCall("logout") = 0
    /\ (pc \in {"audit", "done"} /\ calls # << >>) =>
           /\ CountCall("logout") = 1
           /\ calls[Len(calls)] = "logout"
    /\ caught => pc \in {"finally", "audit", "done"}

\* A run has ended after login raised: logout was called all the same.
C10_Witness ==
    /\ pc = "done"
    /\ caught
    /\ calls = <<"timer", "login", "logout">>

\* C11.  Neither login nor the commit request happens before the countdown
\* thread has made its last tick: whenever deploy() is at login or at commit,
\* or has called either, the thread has ended.
C11_TimerJoinedBeforeSession ==
    /\ pc \in {"login", "commit"} => timerLeft = 0
    /\ (CountCall("login") > 0 \/ CountCall("commit") > 0) => timerLeft = 0
    /\ (pc = "join" /\ timerLeft > 0) => calls = <<"timer">>

\* The countdown has ended, login was called and commit is next.
C11_Witness ==
    /\ pc = "commit"
    /\ calls = <<"timer", "login">>
    /\ timerLeft = 0

C13_PlanMonotonic ==
    [][ /\ Len(plan') >= Len(plan)
        /\ SubSeq(plan', 1, Len(plan)) = plan
        /\ ( /\ pc = "dispatch"
             /\ nKeys' = nKeys + 1
             /\ last'.key = "fvAp"
             /\ last'.value = ListValue(<<ValidItem, NoTenantItem>>) ) =>
               /\ last'.branch = "failed"
               /\ plan' = Append(plan, Op("fvAp", S_T, S_A)) ]_vars

\* The commit request was sent with a plan that holds operations of a
\* handler that raised.
C13_Witness ==
    /\ CountCall("commit") = 1
    /\ pass.nRaised >= 1
    /\ Len(PassOps) > Len(pass.okOps)

\* C14.  The plan is in processing order: of two operations, the earlier one
\* is from an earlier template, or from the same template and from the same
\* key or a key that comes earlier in its document (keys with empty values,
\* which are skipped, are not counted).
C14_PlanInProcessingOrder ==
    /\ Len(planFrom) = Len(plan)
    /\ \A i, j \in 1..Len(planFrom) :
         i < j => \/ planFrom[i].t < planFrom[j].t
                  \/ /\ planFrom[i].t = planFrom[j].t
                     /\ planFrom[i].k <= planFrom[j].k

\* The plan holds operations of two templates, or of two keys of one
\* document, and the loop over the templates has ended.
C14_Witness ==
    /\ pc = "gate"
    /\ Len(plan) >= 2
    /\ planFrom[1] # planFrom[Len(planFrom)]

\* What C15 counts as an invalid value: None, an empty or all-whitespace
\* str, the str "nan" in any letter case, or a float NaN.
IsInvalidAsClaimed(v) ==
    \/ v.t = "none"
    \/ v.t = "str" /\ \A i \in 1..Len(v.s) : v.s[i] \in Whitespace
    \/ v.t = "str" /\ Lower(v.s) = S_nan
    \/ v.t = "float" /\ v.nan

\* C15.  not_nan_str(m, K) returns false if and only if a key of K that is
\* in m has a value that is None, an empty or all-whitespace str, the str
\* "nan" in any letter case, or a float NaN.
C15_NotNanStr ==
    (call.fn = "not_nan_str" /\ call.stage = "output") =>
        (call.ret = FALSE <=>
            \E k \in call.arg.keys :
                /\ k \in DOMAIN call.arg.value
                /\ IsInvalidAsClaimed(call.arg.value[k]))

\* Whether n is d with the str leaves that equal "nan", in any letter case,
\* replaced by "", and with everything else as it is in d.
RECURSIVE RewrittenAsClaimed(_, _)
RewrittenAsClaimed(d, n) ==
    /\ n.t = d.t
    /\ n.keys = d.keys
    /\ Len(n.kids) = Len(d.kids)
    /\ n.leaf = IF d.t = "leaf" /\ d.leaf.t = "str" /\ Lower(d.leaf.s) = S_nan
                THEN StrLeaf(S_Empty)
                ELSE d.leaf
    /\ \A i \in 1..Len(d.kids) : RewrittenAsClaimed(d.kids[i], n.kids[i])

\* C16.  replace_str_nan_with_empty replaces by "" the str leaves that equal
\* "nan" in any letter case, at any depth, and leaves every other leaf, every
\* key and the shape of the document as they are.
C16_ReplaceExactlyNan ==
    (call.fn = "replace_str_nan_with_empty" /\ call.stage = "output") =>
        RewrittenAsClaimed(call.arg, call.ret)

\* C17.  replace_str_nan_with_empty applied to its own result returns it.
C17_ReplaceIdempotent ==
    (call.fn = "replace_str_nan_with_empty" /\ call.stage = "output") =>
        replace_str_nan_with_empty(call.ret) = call.ret

\* The function was applied to a nested document that holds a padded "nan"
\* and changed it.
C17_Witness ==
    /\ call.fn = "replace_str_nan_with_empty"
    /\ call.stage = "output"
    /\ Depth(call.arg) = MaxDepth
    /\ call.ret # call.arg
    /\ \E i \in 1..Len(call.arg.kids) :
         call.arg.kids[i] = LeafNode(StrLeaf(S_PaddedNan))

\* C18.  A plain scalar of the shape of an int, a float or a bool is, in the
\* rendered document, the str of its source text.
C18_LiteralsKeptAsText ==
    ( /\ call.fn = "load"
      /\ call.stage = "output"
      /\ IsIntShape(call.arg) \/ IsFloatShape(call.arg) \/ IsBoolShape(call.arg) ) =>
        call.ret = StrLeaf(call.arg)

\* The text 007 was loaded and is the str "007".
C18_Witness ==
    /\ call.fn = "load"
    /\ call.stage = "output"
    /\ call.arg = <<"0", "0", "7">>
    /\ call.ret = StrLeaf(<<"0", "0", "7">>)

\* The only template's pass has gone through a document of the one key fvAp
\* with the given value, and has returned.
SingleFvApReturned(value) ==
    /\ pc = "returned"
    /\ nTemplates = 1
    /\ seenKeys = {"fvAp"}
    /\ last.key = "fvAp"
    /\ last.value = value

\* C19.  One template whose document is fvAp with one item of name "A" and
\* tenant "T": the plan is one fvAp operation under the tenant "T", the pass
\* is a success and the template's record is a success.
C19_EndToEndSuccess ==
    [][ SingleFvApReturned(ListValue(<<ValidItem>>)) =>
            /\ plan = <<Op("fvAp", S_T, S_A)>>
            /\ ~ cobraRaised
            /\ csuccess
            /\ Len(results') = 1
            /\ results'[1].name = 1
            /\ results'[1].success = TRUE ]_vars

\* Such a template was recorded as a success.
C19_Witness ==
    /\ pc = "next"
    /\ nTemplates = 1
    /\ nKeys = 1
    /\ plan = <<Op("fvAp", S_T, S_A)>>
    /\ clog = <<OkLine("fvAp")>>
    /\ Len(results) = 1
    /\ results[1].success

\* C20.  One template whose document is fvAp with one item of name "": no
\* operation is appended, the plan is empty, the pass reports that no object
\* was found and is a failure, and the template's record is a failure.
C20_EndToEndRejection ==
    [][ SingleFvApReturned(ListValue(<<BlankItem>>)) =>
            /\ plan = << >>
            /\ ~ cobraRaised
            /\ clog[Len(clog)] = NoObjectLine
            /\ csuccess = FALSE
            /\ Len(results') = 1
            /\ results'[1].name = 1
            /\ results'[1].success = FALSE ]_vars

\* Such a template was recorded as a failure: its handler returned, and the
\* plan is empty.
C20_Witness ==
    /\ pc = "next"
    /\ nTemplates = 1
    /\ nKeys = 1
    /\ plan = << >>
    /\ clog = <<OkLine("fvAp"), NoObjectLine>>
    /\ Len(results) = 1
    /\ ~ results[1].success


\* C21: the log of a template's record is the template's render line followed
\* by the entries of the template's own dispatch pass, and by nothing else:
\* no entry of an earlier template's pass is in it.
C21_LogOfOwnPassOnly ==
    (pc = "next" /\ hist[Len(hist)].dispatched /\ ~ cobraRaised) =>
        results[Len(results)].log = <<JinjaOkLine>> \o PassLog

\* The kind a handler appends at the top of what it builds, and the kind of
\* the parent of each kind below it.
RootKind(fn) ==
    CASE fn = "fvBD" -> "fvBD"
      [] fn = "fvAEPg" -> "fvAEPg"
      [] fn = "fvRsPathAtt" -> "fvTenant"

ParentKind(fn, kind) ==
    CASE fn = "fvBD" -> "fvBD"
      [] fn = "fvAEPg" -> "fvAEPg"
      [] kind = "fvRsPathAtt" -> "fvAEPg"
      [] kind = "fvAEPg" -> "fvAp"
      [] kind = "fvAp" -> "fvTenant"

\* The operation of the parent of ops[j] is in ops before place j.
ParentPrecedes(fn, ops, j) ==
    \E i \in 1..(j - 1) :
        /\ ops[i].kind = ParentKind(fn, ops[j].kind)
        /\ ops[i].name = ops[j].parent

\* C22: within one handler invocation every operation is appended after the
\* operation of its parent: in fvBD and fvAEPg the BD or AEPg precedes each
\* of its children, in fvRsPathAtt the operations come as Tenant, Ap, AEPg,
\* RsPathAtt, item after item; this holds of what was appended before a raise
\* too.
C22_ParentBeforeChild ==
    (call.fn \in {"fvBD", "fvAEPg", "fvRsPathAtt"} /\ call.stage = "output") =>
        LET ops == call.ret.ops IN
        /\ \A j \in 1..Len(ops) :
              ops[j].kind # RootKind(call.fn) =>
                  ParentPrecedes(call.fn, ops, j)
        /\ (call.fn = "fvRsPathAtt" /\ ~ call.ret.raised) =>
              /\ Len(ops) % 4 = 0
              /\ \A j \in 1..Len(ops) :
                    ops[j].kind = <<"fvTenant", "fvAp", "fvAEPg",
                                    "fvRsPathAtt">>[((j - 1) % 4) + 1]

\* A BD was appended with its fvRsCtx and an fvSubnet after it.
C22_Witness ==
    /\ call.fn = "fvBD"
    /\ call.stage = "output"
    /\ Len(call.ret.ops) >= 3
    /\ call.ret.ops[1].kind = "fvBD"
    /\ \E i, j \in 2..Len(call.ret.ops) :
          /\ call.ret.ops[i].kind = "fvRsCtx"
          /\ call.ret.ops[j].kind = "fvSubnet"
          /\ call.ret.ops[i].parent = call.ret.ops[1].name
          /\ call.ret.ops[j].parent = call.ret.ops[1].name

\* The optional sub-objects of an item of fvBD and of fvAEPg, in the order the
\* handler takes them: the attribute that holds them, whether it holds a list
\* of them, the keys they are gated on and the key that names them.
SubTable(fn) ==
    IF fn = "fvBD"
    THEN << [key |-> "fvRsCtx", list |-> FALSE, required |-> {"tnFvCtxName"},
             label |-> "tnFvCtxName"],
            [key |-> "igmpIfP", list |-> FALSE, required |-> {"name"},
             label |-> "name"],
            [key |-> "fvRsBdToEpRet", list |-> FALSE,
             required |-> {"tnFvEpRetPolName"}, label |-> "tnFvEpRetPolName"],
            [key |-> "fvRsIgmpsn", list |-> FALSE,
             required |-> {"tnIgmpSnoopPolName"},
             label |-> "tnIgmpSnoopPolName"],
            [key |-> "fvRsMldsn", list |-> FALSE,
             required |-> {"tnMldSnoopPolName"}, label |-> "tnMldSnoopPolName"],
            [key |-> "fvRsBDToOut", list |-> FALSE,
             required |-> {"tnL3extOutName"}, label |-> "tnL3extOutName"],
            [key |-> "fvSubnet", list |-> TRUE, required |-> {"ip"},
             label |-> "ip"] >>
    ELSE << [key |-> "fvRsBd", list |-> FALSE, required |-> {"tnFvBDName"},
             label |-> "tnFvBDName"],
            [key |-> "fvRsDomAtt", list |-> TRUE, required |-> {"tDn"},
             label |-> "tDn"],
            [key |-> "fvRsPathAtt", list |-> TRUE,
             required |-> {"tDn", "primaryEncap", "mode"}, label |-> "tDn"] >>

\* The attributes an item cannot do without.
ItemKeys(fn) ==
    IF fn = "fvBD" THEN {"tenant", "name"} ELSE {"tenant", "fvApName", "name"}

\* The sub-objects an item holds under one entry of the table.
SubObjects(m, s) ==
    IF s.key \notin DOMAIN m THEN << >>
    ELSE IF s.list THEN m[s.key].elems
    ELSE <<m[s.key]>>

\* The value is a list of items that hold what the handler needs for the
\* parent, and whose sub-objects are mappings that hold their required keys.
WellFormed(fn, value) ==
    /\ value.t = "list"
    /\ \A i \in 1..Len(value.elems) :
          LET x == value.elems[i] IN
          /\ x.t = "map"
          /\ ItemKeys(fn) \subseteq DOMAIN x.m
          /\ \A n \in 1..Len(SubTable(fn)) :
                LET s == SubTable(fn)[n] IN
                /\ (s.key \in DOMAIN x.m /\ s.list) => x.m[s.key].t = "list"
                /\ (s.key \in DOMAIN x.m /\ ~ s.list) => x.m[s.key].t = "map"

RECURSIVE Concat(_)
Concat(seqs) ==
    IF seqs = << >> THEN << >> ELSE Head(seqs) \o Concat(Tail(seqs))

\* The sub-objects of one entry of the table that the claim has appended:
\* mappings none of whose required keys is blank, "nan" or null.
ValidSubs(m, s) ==
    LET Ok(sub) == ~ \E k \in s.required : IsInvalidAsClaimed(sub.m[k])
        kept == SelectSeq(SubObjects(m, s), Ok)
    IN  [i \in 1..Len(kept) |-> Op(s.key, m.name.s, kept[i].m[s.label].s)]

\* What the claim has the handler append for a value: per item the parent,
\* then its valid sub-objects.
ExpectedOps(fn, value) ==
    Concat([i \in 1..Len(value.elems) |->
        LET m == value.elems[i].m IN
        <<Op(fn, IF fn = "fvBD" THEN m.tenant.s ELSE m.fvApName.s, m.name.s)>>
        \o Concat([n \in 1..Len(SubTable(fn)) |->
                      ValidSubs(m, SubTable(fn)[n])])])

\* Every sub-object of the value holds its required keys.
RequiredKeysPresent(fn, value) ==
    \A i \in 1..Len(value.elems), n \in 1..Len(SubTable(fn)) :
        LET subs == SubObjects(value.elems[i].m, SubTable(fn)[n]) IN
        \A j \in 1..Len(subs) :
            /\ subs[j].t = "map"
            /\ SubTable(fn)[n].required \subseteq DOMAIN subs[j].m

\* C23: in fvBD and fvAEPg a sub-object whose required key is present but
\* blank, "nan" or null is not appended and does not make the handler raise,
\* and the parent and the valid sub-objects of the item are appended all the
\* same: the handler appends, item by item, the parent and then exactly the
\* valid sub-objects.
C23_InvalidSubObjectSkipped ==
    ( /\ call.fn \in {"fvBD", "fvAEPg"}
      /\ call.stage = "output"
      /\ WellFormed(call.fn, call.arg)
      /\ RequiredKeysPresent(call.fn, call.arg) ) =>
        /\ ~ call.ret.raised
        /\ call.ret.ops = ExpectedOps(call.fn, call.arg)

\* A BD whose fvRsCtx is "nan" and whose first subnet is null: the BD and the
\* second subnet are appended.
C23_Witness ==
    /\ call.fn = "fvBD"
    /\ call.stage = "output"
    /\ call.arg = ListValue(<<MapElem(
          ("tenant" :> StrLeaf(S_T)) @@ ("name" :> StrLeaf(S_A)) @@
          ("fvRsCtx" :> MapElem("tnFvCtxName" :> StrLeaf(S_nan))) @@
          ("fvSubnet" :> ListAttr(<<MapElem("ip" :> NoneLeaf),
                                    MapElem("ip" :> StrLeaf(S_A))>>)))>>)
    /\ call.ret = [ops |-> <<Op("fvBD", S_T, S_A), Op("fvSubnet", S_A, S_A)>>,
                   raised |-> FALSE]

\* C24: whatever the document and whatever the plan holds when the pass
\* begins, CobraClass.render returns normally, having assigned the flag of
\* the engine: it never raises.
C24_RenderReturnsNormally ==
    pc = "returned" => ~ cobraRaised

\* C25: the commit is submitted only in a run in which the record of the last
\* configured template has success = true: a run whose last template failed
\* to render, or failed in dispatch, never commits.
C25_CommitOnlyIfLastTemplateSucceeded ==
    CountCall("commit") > 0 =>
        /\ Len(results) = nTemplates
        /\ results[nTemplates].success

\* C26: the commit sequence is never entered, and the commit never submitted,
\* with a plan that holds no operation.
C26_NoCommitOfEmptyPlan ==
    /\ pc \in {"timer", "join", "login", "commit"} => plan # << >>
    /\ CountCall("commit") > 0 => plan # << >>

\* A run of two templates that committed the one operation they produced,
\* the second template having produced none.
C26_Witness ==
    /\ calls = <<"timer", "login", "commit">>
    /\ nTemplates = 2
    /\ Len(plan) = 1
    /\ planFrom[1].t = 1
    /\ hist[2].dispatched

\* How the pass that has just ended would have ended on a fresh engine.  No
\* handler reads the plan (Call takes the key and the value alone), so on an
\* empty plan the loop of render appends the very operations PassOps and
\* leaves the local "success" as it is here; the end of render then decides
\* on a plan that holds PassOps and nothing else, with the flag of a new
\* CobraResult.
FreshPassEnd ==
    PassEnd([plan |-> PassOps, log |-> << >>, success |-> success,
             csuccess |-> FALSE])

\* C27: the outcome of a template's dispatch pass does not depend on the
\* templates before it: the engine's flag, and the success of the template's
\* record, are what the same document gives on a fresh engine.
C27_OutcomeIndependentOfEarlierTemplates ==
    pc = "returned" =>
        /\ csuccess = FreshPassEnd.csuccess
        /\ (~ cobraRaised /\ csuccess) =
              (~ FreshPassEnd.raised /\ FreshPassEnd.csuccess)

\* C28: a template whose render fails leaves the plan, the engine's log and
\* the engine's flag as they were before the template was taken up: no step
\* from the head of the loop to the render, and no step that records a failed
\* render, changes any of them.
C28_RenderFailureLeavesEngine ==
    [][ ( \/ pc \in {"start", "next", "jinja"}
          \/ pc = "rendered" /\ (jinja.raised \/ ~ jinja.success) ) =>
        (plan' = plan /\ clog' = clog /\ csuccess' = csuccess) ]_vars

\* The second template failed to render after the first one had added an
\* operation and set the flag: plan, log and flag are those of the first.
C28_Witness ==
    /\ pc = "next"
    /\ Len(hist) = 2
    /\ hist[1].overall
    /\ ~ hist[2].rendered
    /\ ~ results[2].success
    /\ csuccess
    /\ Len(plan) = 1
    /\ clog = SubSeq(results[1].log, 2, Len(results[1].log))

\* C29: with no template configured deploy() returns at once and changes
\* nothing: no record, no operation, no log entry, no countdown, login,
\* commit or logout, and no audit file, logging enabled or not.
C29_NoTemplatesNoEffect ==
    nTemplates = 0 =>
        /\ pc \in {"start", "done"}
        /\ results = << >>
        /\ plan = << >>
        /\ clog = << >>
        /\ ~ csuccess
        /\ calls = << >>
        /\ timerLeft = 0
        /\ ~ auditFile.written

\* deploy() has returned with no template configured, logging enabled and
\* dry-run off.
C29_Witness ==
    /\ nTemplates = 0
    /\ pc = "done"
    /\ logging
    /\ ~ testing
    /\ ~ auditFile.written

\* C30: the commit is submitted only after login() returned without error and
\* at most once in a run, logout() comes after it and is the last call of the
\* sequence; when login() raises the commit is never submitted and logout()
\* is called all the same.
C30_LoginCommitLogoutOrder ==
    /\ pc = "commit" => (calls = <<"timer", "login">> /\ ~ caught)
    /\ CountCall("login") <= 1
    /\ CountCall("commit") <= 1
    /\ \A i \in 1..Len(calls) :
          /\ calls[i] = "commit" => (i > 1 /\ calls[i - 1] = "login")
          /\ calls[i] = "logout" => i = Len(calls)
    /\ (pc \in {"audit", "done"} /\ CountCall("login") = 1) =>
          calls[Len(calls)] = "logout"
    /\ (pc = "except" /\ calls[Len(calls)] = "login") =>
          CountCall("commit") = 0
    /\ (caught /\ CountCall("commit") = 0) => pc # "commit"

\* A run has ended whose commit request raised after a login that returned:
\* logout() came after the commit.
C30_Witness ==
    /\ pc = "done"
    /\ caught
    /\ calls = <<"timer", "login", "commit", "logout">>

====
